---- MODULE Spec2Model ----
(***************************************************************************)
(* Invertible Bloom Filter (gerardsn/bloom).                               *)
(*                                                                         *)
(* src/invertible_filter.go holds two evolutions of the filter:            *)
(*   lines   1..229  the multi-seed variant  (Seeds, 32-bit hashes)        *)
(*   lines 231..444  the single-hash variant (K, xorshift64, 64-bit hash)  *)
(* The single-hash variant is modelled by the filters A and B, the         *)
(* multi-seed variant by msA and msB, a lone bucket by bkt.                *)
(*                                                                         *)
(* A uint64 is modelled as the set of its one-bits (a subset of 0..63), so *)
(* that xor and the shifts of xorshift64 are exact.  A byte is a number in *)
(* 0..255, a key a sequence of bytes.                                      *)
(***************************************************************************)
EXTENDS Integers, Sequences, FiniteSets, TLC

VARIABLES
    hashOf,     \* the table of murmur3.Sum64WithSeed(key, 33) on the keys in play
    A,          \* the filter that is operated on (receiver of Subtract and Decode)
    B,          \* the other filter (the subtrahend)
    pc,         \* "idle", "scan" (inside Decode), "done" (Decode returned), "panic"
    pos,        \* Decode: index of the bucket the range loop visits next
    updated,    \* Decode: the local variable updated
    remaining,  \* Decode: the result list remaining
    missing,    \* Decode: the result list missing
    err,        \* the error returned by the last Subtract or Decode ("nil" = none)
    hist,       \* history: what was done to A and B, and snapshots taken on the way
    msA,        \* multi-seed variant: the receiver
    msB,        \* multi-seed variant: the subtrahend
    msHist,     \* multi-seed variant: snapshot and result of the last Subtract
    bkt,        \* a lone bucket
    bktLog,     \* the operations applied to bkt, each with the state before it
    call        \* a call of bucketIndices: its arguments, locals and position

vars == <<hashOf, A, B, pc, pos, updated, remaining, missing, err, hist,
          msA, msB, msHist, bkt, bktLog, call>>

filterVars == <<hashOf, A, B, pc, pos, updated, remaining, missing, err, hist>>
msVars == <<msA, msB, msHist>>
bktVars == <<bkt, bktLog>>
idxVars == <<call>>

-----------------------------------------------------------------------------
(* Bounds of the model *)

\* bucket count of the filters built by NewIbf
NumBuckets == 6
\* byte length of a key (the source fixes 32)
KeyLen == 1
\* Add/Delete calls applied to A and B together before Subtract/Decode
MaxOps == 3
\* keys peeled by one Decode call before the model stops following it
MaxPeels == 5
\* operations applied to the lone bucket
MaxBktOps == 2
\* Add/Delete calls applied to the multi-seed filters before Subtract
MsMaxOps == 4
\* iterations of the loop of bucketIndices that are followed
MaxIdxSteps == 40
\* length of the sequences of calls whose orderings are compared
MaxOrdOps == 3

\* K of NewIbf
DefaultK == 4
\* Seed of NewIbf
DefaultSeed == 33

-----------------------------------------------------------------------------
(* uint64 arithmetic on sets of bit positions *)

Bits64 == 0..63

\* the uint64 with the value n, for small n >= 0
RECURSIVE U64From(_, _)
U64From(n, i) ==
    IF n = 0 THEN {}
    ELSE (IF n % 2 = 1 THEN {i} ELSE {}) \cup U64From(n \div 2, i + 1)

U64(n) == U64From(n, 0)

\* a ^ b
Xor64(a, b) == (a \ b) \cup (b \ a)

\* s << k, the bits shifted out at the top are lost
Shl64(s, k) == {i + k : i \in {j \in s : j + k <= 63}}

\* s >> k
Shr64(s, k) == {i - k : i \in {j \in s : j >= k}}

\* the number held by the 16 bits of s from bit base upwards
RECURSIVE Chunk16(_, _, _)
Chunk16(s, base, j) ==
    IF j > 15 THEN 0
    ELSE (IF base + j \in s THEN 2 ^ j ELSE 0) + Chunk16(s, base, j + 1)

\* s % n, by Horner's rule over the four 16-bit digits of s
Mod64(s, n) ==
    LET r == 65536 % n
        d3 == Chunk16(s, 48, 0) % n
        d2 == Chunk16(s, 32, 0) % n
        d1 == Chunk16(s, 16, 0) % n
        d0 == Chunk16(s, 0, 0) % n
    IN  ((((((d3 * r + d2) % n) * r) + d1) % n) * r + d0) % n

xorshift64(s) ==
    LET s0 == IF s = {} THEN U64(1) ELSE s
        s1 == Xor64(s0, Shl64(s0, 13))
        s2 == Xor64(s1, Shr64(s1, 7))
    IN  Xor64(s2, Shl64(s2, 17))

-----------------------------------------------------------------------------
(* Byte-vector algebra (the helpers xor and eq, which update and isEmpty call) *)

RECURSIVE XorByteFrom(_, _, _)
XorByteFrom(a, b, n) ==
    IF n = 0 THEN 0
    ELSE ((a + b) % 2) + 2 * XorByteFrom(a \div 2, b \div 2, n - 1)

XorByte(a, b) == XorByteFrom(a, b, 8)

\* xor is defined on byte vectors of one length only
XorDefined(a, b) == Len(a) = Len(b)

xor(a, b) == [i \in 1..Len(a) |-> XorByte(a[i], b[i])]

eq(a, b) == Len(a) = Len(b) /\ \A i \in 1..Len(a) : a[i] = b[i]

\* make([]byte, n)
ZeroBytes(n) == [i \in 1..n |-> 0]

-----------------------------------------------------------------------------
(* The keys and hash values in play *)

\* the key whose first byte is b and whose other bytes are zero
MkKey(b) == [i \in 1..KeyLen |-> IF i = 1 THEN b ELSE 0]

\* the keys handed to Add and Delete
Keys == {MkKey(1), MkKey(2), MkKey(3)}

\* every key sum that xor can produce from Keys
KeySpace == {MkKey(0), MkKey(1), MkKey(2), MkKey(3)}

\* a table of the hash function on KeySpace, from the values on the keys 0, 1, 2, 3
Table(h0, h1, h2, h3) ==
    [key \in KeySpace |->
        IF key = MkKey(0) THEN U64(h0)
        ELSE IF key = MkKey(1) THEN U64(h1)
        ELSE IF key = MkKey(2) THEN U64(h2)
        ELSE U64(h3)]

\* The hash tables considered.  A 64-bit hash of longer keys has collisions, and
\* xor-collisions (the xor of some hashes being the hash of the xor of the keys),
\* so tables with and without them are included:
\*   0,1,2,4  no collision of any kind
\*   6,1,2,5  hash(1)^hash(2)^hash(3) = hash(1^2^3)
\*   1,1,1,1  every key has the same hash
\*   4,0,1,3  a key with hash 0, which xorshift64 treats as 1: keys 1 and 2 have
\*            two hashes and the same buckets
\*   4,3,3,3  three keys with the same hash, which the xor of the keys does not have
\*   2,4,3,1  no two hashes equal, no xor-collision
HashTables ==
    {Table(0, 1, 2, 4), Table(6, 1, 2, 5), Table(1, 1, 1, 1),
     Table(4, 0, 1, 3), Table(4, 3, 3, 3), Table(2, 4, 3, 1)}

\* the hash values of the tables
HashVals == UNION {{t[key] : key \in KeySpace} : t \in HashTables}

-----------------------------------------------------------------------------
(* bucket *)

newBucket(keyLength) ==
    [count |-> 0, keySum |-> ZeroBytes(keyLength), hashSum |-> U64(0)]

bucket_update(b, key, hash) ==
    [b EXCEPT !.keySum = xor(b.keySum, key), !.hashSum = Xor64(b.hashSum, hash)]

bucket_add(b, key, hash) ==
    bucket_update([b EXCEPT !.count = b.count + 1], key, hash)

\* a delete that forgets to fold the key and the hash
bucket_delete_countOnly(b, key, hash) == [b EXCEPT !.count = b.count - 1]

\* a delete that never takes the count below zero
bucket_delete_floored(b, key, hash) ==
    bucket_update([b EXCEPT !.count = IF b.count > 0 THEN b.count - 1 ELSE 0], key, hash)

bucket_delete(b, key, hash) ==
    bucket_update([b EXCEPT !.count = b.count - 1], key, hash)

\* a subtract that adds the counts
bucket_subtract_plus(b, o) ==
    bucket_update([b EXCEPT !.count = b.count + o.count], o.keySum, o.hashSum)

bucket_subtract(b, o) ==
    bucket_update([b EXCEPT !.count = b.count - o.count], o.keySum, o.hashSum)

\* an emptiness test that looks at the count only
bucket_isEmpty_countOnly(b) == b.count = 0

bucket_isEmpty(b) ==
    b.count = 0 /\ b.hashSum = U64(0) /\ eq(b.keySum, ZeroBytes(Len(b.keySum)))

bucket_equals(b, o) ==
    b.count = o.count /\ b.hashSum = o.hashSum /\ eq(b.keySum, o.keySum)

-----------------------------------------------------------------------------
(* ibf, single-hash variant *)

Range(q) == {q[j] : j \in 1..Len(q)}

NewIbf(numBuckets) ==
    [Buckets   |-> [j \in 1..numBuckets |-> newBucket(KeyLen)],
     K         |-> DefaultK,
     Seed      |-> DefaultSeed,
     KeyLength |-> KeyLen]

\* murmur3.Sum64WithSeed is a library function: any table of it is considered.
\* The model hashes under the seed of NewIbf only (a filter with another seed
\* comes from UnmarshalJson, and its buckets have no key sum to xor with).
hashKey(f, key) == hashOf[key]

\* the loop of bucketIndices: indices holds bucket ids counted from 0
RECURSIVE bucketIndicesLoop(_, _, _, _)
bucketIndicesLoop(n, k, next, indices) ==
    IF Len(indices) >= k THEN indices
    ELSE LET bucketId == Mod64(next, n)
         IN  bucketIndicesLoop(n, k, xorshift64(next),
                 IF bucketId \in Range(indices) THEN indices
                 ELSE Append(indices, bucketId))

\* bucketIndices for the bucket counts, K and hash values in play, computed once
IndexCache ==
    [n \in {NumBuckets, NumBuckets + 1}, k \in {DefaultK, DefaultK + 1}, hash \in HashVals |->
        bucketIndicesLoop(n, k, xorshift64(hash), <<>>)]

bucketIndices(f, hash) ==
    IF <<Len(f.Buckets), f.K, hash>> \in DOMAIN IndexCache
    THEN IndexCache[Len(f.Buckets), f.K, hash]
    ELSE bucketIndicesLoop(Len(f.Buckets), f.K, xorshift64(hash), <<>>)

\* the positions (counted from 1) of the buckets a key is written to
Touched(f, key) == {h + 1 : h \in Range(bucketIndices(f, hashKey(f, key)))}

ibf_Add(f, key) ==
    LET hash == hashKey(f, key)
        hit  == Touched(f, key)
    IN  [f EXCEPT !.Buckets = [j \in 1..Len(f.Buckets) |->
            IF j \in hit THEN bucket_add(f.Buckets[j], key, hash) ELSE f.Buckets[j]]]

\* a Delete that stops after the first bucket of the key
ibf_Delete_firstOnly(f, key) ==
    LET hash  == hashKey(f, key)
        first == bucketIndices(f, hash)[1] + 1
    IN  [f EXCEPT !.Buckets[first] = bucket_delete(@, key, hash)]

ibf_Delete(f, key) ==
    LET hash == hashKey(f, key)
        hit  == Touched(f, key)
    IN  [f EXCEPT !.Buckets = [j \in 1..Len(f.Buckets) |->
            IF j \in hit THEN bucket_delete(f.Buckets[j], key, hash) ELSE f.Buckets[j]]]

\* Add and Delete end in a run-time panic when xor is handed vectors of two lengths
UpdatePanics(f, key) ==
    \E j \in 1..Len(f.Buckets) : ~XorDefined(f.Buckets[j].keySum, key)

\* What xor returns for vectors of two lengths when it does not panic: spec 4.1
\* leaves it undefined, the outcomes considered are the xor of the common prefix
\* ("truncate") and the xor with the shorter vector filled up by zeros ("pad").
XorMisfit(mode, a, b) ==
    LET short == IF Len(a) < Len(b) THEN Len(a) ELSE Len(b)
        long  == IF Len(a) < Len(b) THEN Len(b) ELSE Len(a)
        at(v, i) == IF i <= Len(v) THEN v[i] ELSE 0
    IN  [i \in 1..(IF mode = "truncate" THEN short ELSE long) |->
            XorByte(at(a, i), at(b, i))]

\* Add (d = 1) or Delete (d = -1) of a key that xor panics on: the count of the first
\* bucket of the key is changed (b.count++ / b.count--) before update calls xor
ibf_UpdatePanicked(f, hash, d) ==
    LET first == bucketIndices(f, hash)[1] + 1
    IN  [f EXCEPT !.Buckets[first].count = @ + d]

\* Add (d = 1) or Delete (d = -1) of a key of another length than the key sums, when
\* xor returns a vector
ibf_UpdateMisfit(f, key, hash, d, mode) ==
    LET hit == {h + 1 : h \in Range(bucketIndices(f, hash))}
    IN  [f EXCEPT !.Buckets = [j \in 1..Len(f.Buckets) |->
            IF j \in hit
            THEN [count   |-> f.Buckets[j].count + d,
                  keySum  |-> XorMisfit(mode, f.Buckets[j].keySum, key),
                  hashSum |-> Xor64(f.Buckets[j].hashSum, hash)]
            ELSE f.Buckets[j]]]

\* the error of validateSubtrahend, "nil" for none
validateSubtrahend(i, o) ==
    IF Len(i.Buckets) # Len(o.Buckets) THEN "unequal number of Buckets"
    ELSE IF i.Seed # o.Seed THEN "keySeeds do not match"
    ELSE IF i.KeyLength # o.KeyLength THEN "keyLengths do not match"
    ELSE IF i.K # o.K THEN "unequal number of K"
    ELSE "nil"

\* a Subtract that computes other - this
ibf_SubtractBuckets_reversed(i, o) ==
    [i EXCEPT !.Buckets = [j \in 1..Len(i.Buckets) |->
        bucket_subtract(o.Buckets[j], i.Buckets[j])]]

\* the loop of Subtract, after validation
ibf_SubtractBuckets(i, o) ==
    [i EXCEPT !.Buckets = [j \in 1..Len(i.Buckets) |->
        bucket_subtract(i.Buckets[j], o.Buckets[j])]]

SubtractPanics(i, o) ==
    \E j \in 1..Len(i.Buckets) : ~XorDefined(i.Buckets[j].keySum, o.Buckets[j].keySum)

\* json.Marshal of a bucket: an object of its exported fields, and it has none
BucketToJson(b) == [field \in {} |-> 0]

\* json.Unmarshal into a new bucket: each field without a JSON member keeps its
\* zero value (keySum is a nil slice)
BucketFromJson(obj) ==
    [count   |-> IF "count" \in DOMAIN obj THEN obj["count"] ELSE 0,
     keySum  |-> IF "keySum" \in DOMAIN obj THEN obj["keySum"] ELSE <<>>,
     hashSum |-> IF "hashSum" \in DOMAIN obj THEN obj["hashSum"] ELSE U64(0)]

MarshalJson(f) ==
    [Buckets    |-> [j \in 1..Len(f.Buckets) |-> BucketToJson(f.Buckets[j])],
     K          |-> f.K,
     seed       |-> f.Seed,
     key_length |-> f.KeyLength]

UnmarshalJson(data) ==
    [Buckets   |-> [j \in 1..Len(data.Buckets) |-> BucketFromJson(data.Buckets[j])],
     K         |-> data.K,
     Seed      |-> data.seed,
     KeyLength |-> data.key_length]

ibf_clone(f) == UnmarshalJson(MarshalJson(f))

\* a test of a bucket that leaves out the hash
IsPure_countOnly(f, b) == b.count = 1 \/ b.count = -1

\* Decode's test of a bucket
IsPure(f, b) ==
    /\ b.count = 1 \/ b.count = -1
    /\ hashKey(f, b.keySum) = b.hashSum

AllEmpty(f) == \A j \in 1..Len(f.Buckets) : bucket_isEmpty(f.Buckets[j])

\* a pass test that returns when a key was peeled
PassReturns_inverted(upd) == upd

\* the test after a pass: Decode returns when the pass peeled nothing
PassReturns(upd) == ~upd

\* the error Decode returns once a pass found no pure bucket
DecodeResult(f) == IF AllEmpty(f) THEN "nil" ELSE "decode failed"

-----------------------------------------------------------------------------
(* The operations on the filters A and B (single-hash variant) *)

ZeroCounts == [key \in Keys |-> 0]

RECURSIVE SumOver(_, _)
SumOver(f, S) ==
    IF S = {} THEN 0
    ELSE LET x == CHOOSE y \in S : TRUE IN f[x] + SumOver(f, S \ {x})

\* Add and Delete calls made so far
TotalOps ==
    SumOver(hist.addA, Keys) + SumOver(hist.delA, Keys)
        + SumOver(hist.addB, Keys) + SumOver(hist.delB, Keys)

\* documents UnmarshalJson is handed: the configuration of NewIbf(NumBuckets), and
\* one more for each field that can differ
WireDocs ==
    LET doc(n, k, seed, len) ==
            [Buckets |-> [j \in 1..n |-> [field \in {} |-> 0]],
             K |-> k, seed |-> seed, key_length |-> len]
    IN  {doc(NumBuckets, DefaultK, DefaultSeed, KeyLen),
         doc(NumBuckets + 1, DefaultK, DefaultSeed, KeyLen),
         doc(NumBuckets, DefaultK + 1, DefaultSeed, KeyLen),
         doc(NumBuckets, DefaultK, DefaultSeed + 1, KeyLen),
         doc(NumBuckets, DefaultK, DefaultSeed, KeyLen + 1)}

FilterInit ==
    /\ hashOf \in HashTables
    /\ A = NewIbf(NumBuckets)
    /\ B = NewIbf(NumBuckets)
    /\ pc = "idle"
    /\ pos = 0
    /\ updated = FALSE
    /\ remaining = <<>>
    /\ missing = <<>>
    /\ err = "nil"
    /\ hist = [addA |-> ZeroCounts, delA |-> ZeroCounts,
               addB |-> ZeroCounts, delB |-> ZeroCounts,
               bKind |-> "new", last |-> "NewIbf", subtracted |-> FALSE, late |-> FALSE,
               fresh |-> FALSE,
               preA |-> NewIbf(NumBuckets), preB |-> NewIbf(NumBuckets),
               passes |-> 0,
               passStart |-> NewIbf(NumBuckets), peels |-> <<>>, touched |-> {}]

DecodeVars == <<pos, updated, remaining, missing>>

\* A.Add(key)
AddA(key) ==
    /\ pc = "idle"
    /\ TotalOps < MaxOps
    /\ A' = ibf_Add(A, key)
    /\ hist' = [hist EXCEPT !.addA[key] = @ + 1, !.last = "AddA", !.late = hist.subtracted,
                            !.fresh = FALSE]
    /\ UNCHANGED <<hashOf, B, pc, err, DecodeVars, msVars, bktVars, idxVars>>

\* A.Delete(key)
DeleteA(key) ==
    /\ pc = "idle"
    /\ TotalOps < MaxOps
    /\ A' = ibf_Delete(A, key)
    /\ hist' = [hist EXCEPT !.delA[key] = @ + 1, !.last = "DeleteA", !.late = hist.subtracted,
                            !.fresh = FALSE]
    /\ UNCHANGED <<hashOf, B, pc, err, DecodeVars, msVars, bktVars, idxVars>>

\* B.Add(key)
AddB(key) ==
    /\ pc = "idle"
    /\ ~hist.subtracted
    /\ TotalOps < MaxOps
    /\ IF UpdatePanics(B, key)
       THEN /\ pc' = "panic"
            /\ hist' = [hist EXCEPT !.last = "AddB", !.fresh = FALSE]
            /\ B' = ibf_UpdatePanicked(B, hashKey(B, key), 1)
       ELSE /\ B' = ibf_Add(B, key)
            /\ hist' = [hist EXCEPT !.addB[key] = @ + 1, !.last = "AddB"]
            /\ UNCHANGED pc
    /\ UNCHANGED <<hashOf, A, err, DecodeVars, msVars, bktVars, idxVars>>

\* B.Delete(key)
DeleteB(key) ==
    /\ pc = "idle"
    /\ ~hist.subtracted
    /\ TotalOps < MaxOps
    /\ IF UpdatePanics(B, key)
       THEN /\ pc' = "panic"
            /\ hist' = [hist EXCEPT !.last = "DeleteB", !.fresh = FALSE]
            /\ B' = ibf_UpdatePanicked(B, hashKey(B, key), -1)
       ELSE /\ B' = ibf_Delete(B, key)
            /\ hist' = [hist EXCEPT !.delB[key] = @ + 1, !.last = "DeleteB"]
            /\ UNCHANGED pc
    /\ UNCHANGED <<hashOf, A, err, DecodeVars, msVars, bktVars, idxVars>>

\* keys whose length is not the KeyLength of the filters, one longer, one shorter
BadKeys == {[i \in 1..(KeyLen + 1) |-> 1], [i \in 1..(KeyLen - 1) |-> 1]}

\* the hashes of those keys (murmur3 is a library function, two values stand for it)
BadKeyHashes == {U64(1), U64(2)}

\* what the call of xor on vectors of two lengths does
MisfitOutcomes == {"panic", "truncate", "pad"}

\* A.Add(key) for a key of the wrong length.  Add does not check the length and
\* returns no error.  The filter is not followed further.
AddBadKey(key, hash, outcome) ==
    /\ pc = "idle"
    /\ TotalOps < MaxOps
    /\ A' = IF outcome = "panic"
            THEN ibf_UpdatePanicked(A, hash, 1)
            ELSE ibf_UpdateMisfit(A, key, hash, 1, outcome)
    /\ pc' = IF outcome = "panic" THEN "panic" ELSE "stop"
    /\ hist' = [hist EXCEPT !.last = "AddBadKey", !.preA = A, !.fresh = FALSE]
    /\ UNCHANGED <<hashOf, B, err, DecodeVars, msVars, bktVars, idxVars>>

\* A.Delete(key) for a key of the wrong length, likewise
DeleteBadKey(key, hash, outcome) ==
    /\ pc = "idle"
    /\ TotalOps < MaxOps
    /\ A' = IF outcome = "panic"
            THEN ibf_UpdatePanicked(A, hash, -1)
            ELSE ibf_UpdateMisfit(A, key, hash, -1, outcome)
    /\ pc' = IF outcome = "panic" THEN "panic" ELSE "stop"
    /\ hist' = [hist EXCEPT !.last = "DeleteBadKey", !.preA = A, !.fresh = FALSE]
    /\ UNCHANGED <<hashOf, B, err, DecodeVars, msVars, bktVars, idxVars>>

\* B = A.clone()
Clone ==
    /\ pc = "idle"
    /\ ~hist.subtracted
    /\ hist.bKind = "new"
    /\ B' = ibf_clone(A)
    /\ hist' = [hist EXCEPT !.addB = ZeroCounts, !.delB = ZeroCounts,
                            !.bKind = "clone", !.last = "clone", !.preA = A,
                            !.fresh = TRUE]
    /\ UNCHANGED <<hashOf, A, pc, err, DecodeVars, msVars, bktVars, idxVars>>

\* B = UnmarshalJson(data), a filter received from elsewhere
Receive(data) ==
    /\ pc = "idle"
    /\ ~hist.subtracted
    /\ hist.bKind = "new"
    /\ B' = UnmarshalJson(data)
    /\ hist' = [hist EXCEPT !.addB = ZeroCounts, !.delB = ZeroCounts,
                            !.bKind = "wire", !.last = "UnmarshalJson"]
    /\ UNCHANGED <<hashOf, A, pc, err, DecodeVars, msVars, bktVars, idxVars>>

\* A.Subtract(B)
Subtract ==
    /\ pc = "idle"
    /\ ~hist.subtracted
    /\ LET verr == validateSubtrahend(A, B)
       IN  IF verr # "nil"
           THEN /\ err' = verr
                /\ UNCHANGED <<A, pc>>
           ELSE IF SubtractPanics(A, B)
           THEN /\ pc' = "panic"
                /\ UNCHANGED <<A, err>>
           ELSE /\ A' = ibf_SubtractBuckets(A, B)
                /\ err' = "nil"
                /\ UNCHANGED pc
    /\ hist' = [hist EXCEPT !.subtracted = TRUE, !.last = "Subtract",
                            !.preA = A, !.preB = B]
    /\ UNCHANGED <<hashOf, B, DecodeVars, msVars, bktVars, idxVars>>

\* A.Decode() is entered
DecodeBegin ==
    /\ pc = "idle"
    /\ pc' = "scan"
    /\ pos' = 1
    /\ updated' = FALSE
    /\ remaining' = <<>>
    /\ missing' = <<>>
    /\ hist' = [hist EXCEPT !.last = "Decode", !.preA = A, !.passes = 0,
                            !.passStart = A, !.peels = <<>>, !.touched = {}]
    /\ UNCHANGED <<hashOf, A, B, err, msVars, bktVars, idxVars>>

\* the record of a peel at the bucket under the scan: its position, and the buckets
\* that the peels made earlier in the pass have written to
PeelNoted(b) ==
    [hist EXCEPT !.peels = Append(@, [at |-> pos, earlier |-> hist.touched]),
                 !.touched = @ \cup Touched(A, b.keySum)]

\* one iteration of the range loop over i.Buckets
DecodeVisit ==
    /\ pc = "scan"
    /\ pos <= Len(A.Buckets)
    /\ LET b == A.Buckets[pos]
       IN  IF ~IsPure(A, b)
           THEN /\ pos' = pos + 1
                /\ UNCHANGED <<A, pc, updated, remaining, missing, hist>>
           ELSE IF Len(remaining) + Len(missing) >= MaxPeels
           THEN /\ pc' = "cut"
                /\ UNCHANGED <<A, pos, updated, remaining, missing, hist>>
           ELSE IF b.count = 1
           THEN /\ remaining' = Append(remaining, b.keySum)
                /\ A' = ibf_Delete(A, b.keySum)
                /\ updated' = TRUE
                /\ pos' = pos + 1
                /\ hist' = PeelNoted(b)
                /\ UNCHANGED <<pc, missing>>
           ELSE /\ missing' = Append(missing, b.keySum)
                /\ A' = ibf_Add(A, b.keySum)
                /\ updated' = TRUE
                /\ pos' = pos + 1
                /\ hist' = PeelNoted(b)
                /\ UNCHANGED <<pc, remaining>>
    /\ UNCHANGED <<hashOf, B, err, msVars, bktVars, idxVars>>

\* the end of a pass: return when nothing was peeled, else scan again
DecodePassEnd ==
    /\ pc = "scan"
    /\ pos > Len(A.Buckets)
    /\ IF PassReturns(updated)
       THEN /\ pc' = "done"
            /\ err' = DecodeResult(A)
            /\ hist' = [hist EXCEPT !.passes = @ + 1]
            /\ UNCHANGED <<pos, updated>>
       ELSE /\ pos' = 1
            /\ updated' = FALSE
            /\ hist' = [hist EXCEPT !.passes = @ + 1, !.passStart = A,
                                    !.peels = <<>>, !.touched = {}]
            /\ UNCHANGED <<pc, err>>
    /\ UNCHANGED <<hashOf, A, B, remaining, missing, msVars, bktVars, idxVars>>

FilterNext ==
    \/ \E key \in Keys : AddA(key)
    \/ \E key \in Keys : DeleteA(key)
    \/ \E key \in Keys : AddB(key)
    \/ \E key \in Keys : DeleteB(key)
    \/ \E key \in BadKeys, hash \in BadKeyHashes, outcome \in MisfitOutcomes :
            AddBadKey(key, hash, outcome)
    \/ \E key \in BadKeys, hash \in BadKeyHashes, outcome \in MisfitOutcomes :
            DeleteBadKey(key, hash, outcome)
    \/ Clone
    \/ \E data \in WireDocs : Receive(data)
    \/ Subtract
    \/ DecodeBegin
    \/ DecodeVisit
    \/ DecodePassEnd

-----------------------------------------------------------------------------
(* ibf, multi-seed variant: the filters msA and msB *)

\* Seeds of NewIbf
DefaultSeeds == <<0, 1, 2, 4>>

ms_NewIbf(numBuckets) ==
    [Buckets    |-> [j \in 1..numBuckets |-> newBucket(KeyLen)],
     NumBuckets |-> numBuckets,
     Seeds      |-> DefaultSeeds,
     KeySeed    |-> DefaultSeed,
     KeyLength  |-> KeyLen]

\* the seeds a filter in play can hold
SeedVals == {0, 1, 2, 4, 5, DefaultSeed, DefaultSeed + 1}

\* a table of murmur3.Sum32WithSeed on the keys and seeds in play; the library
\* function is not part of the repository, two arbitrary tables stand for it
Sum32Table(m) ==
    [p \in KeySpace \X SeedVals |-> U64((p[1][1] * m + p[2] * (m + 2) + m) % 8)]

Sum32Tables == {Sum32Table(1), Sum32Table(3)}

Sum32WithSeed(key, seed) == hashOf[<<key, seed>>]

ms_hashKey(f, key) == Sum32WithSeed(key, f.KeySeed)

RECURSIVE unique(_)
unique(uintSlice) ==
    IF uintSlice = <<>> THEN <<>>
    ELSE LET front == unique(SubSeq(uintSlice, 1, Len(uintSlice) - 1))
             v     == uintSlice[Len(uintSlice)]
         IN  IF v \in Range(front) THEN front ELSE Append(front, v)

\* the loop of hashIndices and its call of unique, for a given table of Sum32WithSeed
hashIndicesOf(table, seeds, numBuckets, key) ==
    unique([idx \in 1..Len(seeds) |-> Mod64(table[<<key, seeds[idx]>>], numBuckets)])

\* hashIndices of a filter of NewIbf(NumBuckets), for the tables and keys in play,
\* computed once
MsIndexCache ==
    [table \in Sum32Tables, key \in Keys |->
        hashIndicesOf(table, DefaultSeeds, NumBuckets, key)]

hashIndices(f, key) ==
    IF f.Seeds = DefaultSeeds /\ f.NumBuckets = NumBuckets /\ key \in Keys
    THEN MsIndexCache[hashOf, key]
    ELSE hashIndicesOf(hashOf, f.Seeds, f.NumBuckets, key)

ms_Touched(f, key) == {h + 1 : h \in Range(hashIndices(f, key))}

ms_AddBuckets(f, key) ==
    [f EXCEPT !.Buckets = [j \in 1..Len(f.Buckets) |->
        IF j \in ms_Touched(f, key)
        THEN bucket_add(f.Buckets[j], key, ms_hashKey(f, key))
        ELSE f.Buckets[j]]]

\* the boolean Add returns
ms_AddResult(f, key) ==
    \E j \in ms_Touched(f, key) : ms_AddBuckets(f, key).Buckets[j].count < 2

ms_Delete(f, key) ==
    [f EXCEPT !.Buckets = [j \in 1..Len(f.Buckets) |->
        IF j \in ms_Touched(f, key)
        THEN bucket_delete(f.Buckets[j], key, ms_hashKey(f, key))
        ELSE f.Buckets[j]]]

\* isEmpty of the multi-seed variant: the key sum is compared with a zero vector of
\* the package constant KeyLength, whatever the length of the key sum is
ms_bucket_isEmpty(b) ==
    b.count = 0 /\ b.hashSum = U64(0) /\ eq(b.keySum, ZeroBytes(KeyLen))

\* sort.Slice(seeds, less): the seeds in ascending order
RECURSIVE SortSeeds(_)
SortSeeds(q) ==
    IF q = <<>> THEN <<>>
    ELSE LET least == CHOOSE x \in Range(q) : \A y \in Range(q) : x <= y
             at    == CHOOSE j \in 1..Len(q) : q[j] = least
         IN  <<least>> \o SortSeeds(SubSeq(q, 1, at - 1) \o SubSeq(q, at + 1, Len(q)))

\* validateSubtrahend: its error ("nil" for none) and the seed lists of the receiver
\* and of the subtrahend when it returns; both lists are sorted in place once the
\* first four checks have passed
ms_validateSubtrahend(i, o) ==
    LET kept(e) == [err |-> e, iSeeds |-> i.Seeds, oSeeds |-> o.Seeds]
        si == SortSeeds(i.Seeds)
        so == SortSeeds(o.Seeds)
    IN  IF i.NumBuckets # o.NumBuckets THEN kept("unequal number of Buckets")
        ELSE IF i.KeySeed # o.KeySeed THEN kept("keySeeds do not match")
        ELSE IF i.KeyLength # o.KeyLength THEN kept("keyLengths do not match")
        ELSE IF Len(i.Seeds) # Len(o.Seeds) THEN kept("kunequal number of Seeds")
        ELSE [err    |-> IF \E idx \in 1..Len(si) : si[idx] # so[idx]
                         THEN "Seeds do not match" ELSE "nil",
              iSeeds |-> si,
              oSeeds |-> so]

\* json.Unmarshal into the multi-seed ibf; the buckets are read as for the other variant
ms_UnmarshalJson(data) ==
    [Buckets    |-> [j \in 1..Len(data.Buckets) |-> BucketFromJson(data.Buckets[j])],
     NumBuckets |-> data.num_buckets,
     Seeds      |-> data.Seeds,
     KeySeed    |-> data.key_seed,
     KeyLength  |-> data.key_length]

\* documents ms_UnmarshalJson is handed
MsWireDocs ==
    LET doc(n, seeds, keySeed, len) ==
            [Buckets |-> [j \in 1..n |-> [field \in {} |-> 0]],
             num_buckets |-> n, Seeds |-> seeds, key_seed |-> keySeed,
             key_length |-> len]
    IN  {doc(NumBuckets, <<0, 1, 2, 4>>, DefaultSeed, KeyLen),
         doc(NumBuckets, <<4, 2, 1, 0>>, DefaultSeed, KeyLen),
         doc(NumBuckets, <<5, 2, 1, 0>>, DefaultSeed, KeyLen),
         doc(NumBuckets, <<0, 1, 2, 5>>, DefaultSeed, KeyLen),
         doc(NumBuckets, <<0, 1, 2>>, DefaultSeed, KeyLen),
         doc(NumBuckets + 1, <<2, 1, 0, 4>>, DefaultSeed, KeyLen),
         doc(NumBuckets, <<2, 1, 0, 4>>, DefaultSeed + 1, KeyLen),
         doc(NumBuckets, <<2, 1, 0, 4>>, DefaultSeed, KeyLen + 1)}

MsInit ==
    /\ hashOf \in Sum32Tables
    /\ msA = ms_NewIbf(NumBuckets)
    /\ msB = ms_NewIbf(NumBuckets)
    /\ msHist = [ops |-> 0, last |-> "NewIbf", key |-> <<>>, ret |-> TRUE, err |-> "nil",
                 panic |-> FALSE, bKind |-> "new",
                 preA |-> ms_NewIbf(NumBuckets), preB |-> ms_NewIbf(NumBuckets)]
    /\ A = NewIbf(NumBuckets)
    /\ B = NewIbf(NumBuckets)
    /\ pc = "off"
    /\ pos = 0
    /\ updated = FALSE
    /\ remaining = <<>>
    /\ missing = <<>>
    /\ err = "nil"
    /\ hist = <<>>
    /\ bkt = <<>>
    /\ bktLog = <<>>
    /\ call = <<>>

MsOthers == <<A, B, pc, pos, updated, remaining, missing, err, hist, hashOf, bktVars, idxVars>>

MsIdleNow == msHist.last # "Subtract" /\ ~msHist.panic

\* msA.Add(key)
MsAddA(key) ==
    /\ MsIdleNow
    /\ msHist.ops < MsMaxOps
    /\ msA' = ms_AddBuckets(msA, key)
    /\ msHist' = [msHist EXCEPT !.ops = @ + 1, !.last = "Add", !.key = key,
                                !.ret = ms_AddResult(msA, key), !.preA = msA]
    /\ UNCHANGED <<msB, MsOthers>>

\* msA.Delete(key)
MsDeleteA(key) ==
    /\ MsIdleNow
    /\ msHist.ops < MsMaxOps
    /\ msA' = ms_Delete(msA, key)
    /\ msHist' = [msHist EXCEPT !.ops = @ + 1, !.last = "Delete", !.preA = msA]
    /\ UNCHANGED <<msB, MsOthers>>

\* msB.Add(key), for a filter of NewIbf
MsAddB(key) ==
    /\ MsIdleNow
    /\ msHist.bKind = "new"
    /\ msHist.ops < MsMaxOps
    /\ msB' = ms_AddBuckets(msB, key)
    /\ msHist' = [msHist EXCEPT !.ops = @ + 1, !.last = "AddB"]
    /\ UNCHANGED <<msA, MsOthers>>

\* msB = UnmarshalJson(data)
MsReceive(data) ==
    /\ MsIdleNow
    /\ msHist.bKind = "new"
    /\ msB' = ms_UnmarshalJson(data)
    /\ msHist' = [msHist EXCEPT !.last = "UnmarshalJson", !.bKind = "wire"]
    /\ UNCHANGED <<msA, MsOthers>>

\* msA.Subtract(msB)
MsSubtract ==
    /\ MsIdleNow
    /\ LET v  == ms_validateSubtrahend(msA, msB)
           ok == /\ v.err = "nil"
                 /\ Len(msB.Buckets) >= Len(msA.Buckets)
                 /\ \A j \in 1..Len(msA.Buckets) :
                        XorDefined(msA.Buckets[j].keySum, msB.Buckets[j].keySum)
       IN  /\ msA' = [msA EXCEPT
                        !.Seeds = v.iSeeds,
                        !.Buckets = IF ok
                                    THEN [j \in 1..Len(msA.Buckets) |->
                                            bucket_subtract(msA.Buckets[j], msB.Buckets[j])]
                                    ELSE @]
           /\ msB' = [msB EXCEPT !.Seeds = v.oSeeds]
           /\ msHist' = [msHist EXCEPT !.last = "Subtract", !.err = v.err,
                                       !.panic = (v.err = "nil" /\ ~ok),
                                       !.preA = msA, !.preB = msB]
    /\ UNCHANGED MsOthers

MsNext ==
    \/ \E key \in Keys : MsAddA(key)
    \/ \E key \in Keys : MsDeleteA(key)
    \/ \E key \in Keys : MsAddB(key)
    \/ \E data \in MsWireDocs : MsReceive(data)
    \/ MsSubtract

-----------------------------------------------------------------------------
(* The lone buckets: bkt[1] is the receiver b of add, delete and subtract,   *)
(* bkt[2] is another bucket.  subtract takes a pointer o, which may point to *)
(* either of them.                                                           *)

BktCounts == -1..1

BucketStates ==
    [count : BktCounts, keySum : KeySpace, hashSum : {U64(0), U64(1), U64(3)}]

OtherBucketStates ==
    {newBucket(KeyLen),
     [count |-> 1, keySum |-> MkKey(2), hashSum |-> U64(2)],
     [count |-> -2, keySum |-> MkKey(3), hashSum |-> U64(1)]}

BktHashes == {U64(1), U64(2)}

\* newBucket(keyLength) for key lengths up to one above that of the filters
FreshBuckets == {newBucket(n) : n \in 0..(KeyLen + 1)}

BktInit ==
    /\ bkt \in {<<b, o>> : b \in BucketStates \cup FreshBuckets, o \in OtherBucketStates}
    /\ bktLog = <<>>

BktEntry(op, key, hash, o) ==
    [op |-> op, key |-> key, hash |-> hash, o |-> o, before |-> bkt]

BktAdd(key, hash) ==
    /\ Len(bktLog) < MaxBktOps
    /\ XorDefined(bkt[1].keySum, key)
    /\ bkt' = [bkt EXCEPT ![1] = bucket_add(bkt[1], key, hash)]
    /\ bktLog' = Append(bktLog, BktEntry("add", key, hash, 0))
    /\ UNCHANGED <<filterVars, msVars, idxVars>>

BktDelete(key, hash) ==
    /\ Len(bktLog) < MaxBktOps
    /\ XorDefined(bkt[1].keySum, key)
    /\ bkt' = [bkt EXCEPT ![1] = bucket_delete(bkt[1], key, hash)]
    /\ bktLog' = Append(bktLog, BktEntry("delete", key, hash, 0))
    /\ UNCHANGED <<filterVars, msVars, idxVars>>

\* b.subtract(o): o is a pointer, bkt[o] is read and bkt[1] is written
BktSubtract(o) ==
    /\ Len(bktLog) < MaxBktOps
    /\ XorDefined(bkt[1].keySum, bkt[o].keySum)
    /\ bkt' = [bkt EXCEPT ![1] = bucket_subtract(bkt[1], bkt[o])]
    /\ bktLog' = Append(bktLog, BktEntry("subtract", bkt[o].keySum, bkt[o].hashSum, o))
    /\ UNCHANGED <<filterVars, msVars, idxVars>>

BktNext ==
    \/ \E key \in Keys, hash \in BktHashes : BktAdd(key, hash)
    \/ \E key \in Keys, hash \in BktHashes : BktDelete(key, hash)
    \/ \E o \in {1, 2} : BktSubtract(o)

-----------------------------------------------------------------------------
(* Sequences of Add, Delete and Subtract calls on the filter A.  hist is the      *)
(* sequence of the calls made.  Subtract is handed a pointer: to the filter B, or *)
(* to A itself.                                                                   *)

\* the filter that a call leaves, from the filter f it is made on
ApplyCall(f, c) ==
    IF c.op = "Add" THEN ibf_Add(f, c.key)
    ELSE IF c.op = "Delete" THEN ibf_Delete(f, c.key)
    ELSE IF c.op = "Subtract" THEN ibf_SubtractBuckets(f, B)
    ELSE ibf_SubtractBuckets(f, f)

OrdInit ==
    /\ hashOf \in HashTables
    /\ A = NewIbf(NumBuckets)
    /\ B \in {ibf_Add(NewIbf(NumBuckets), key) : key \in Keys}
    /\ pc = "calls"
    /\ pos = 0
    /\ updated = FALSE
    /\ remaining = <<>>
    /\ missing = <<>>
    /\ err = "nil"
    /\ hist = <<>>

OrdOthers == <<hashOf, B, pc, err, DecodeVars, msVars, bktVars, idxVars>>

\* A.Add(key)
OrdAdd(key) ==
    /\ Len(hist) < MaxOrdOps
    /\ A' = ibf_Add(A, key)
    /\ hist' = Append(hist, [op |-> "Add", key |-> key])
    /\ UNCHANGED OrdOthers

\* A.Delete(key)
OrdDelete(key) ==
    /\ Len(hist) < MaxOrdOps
    /\ A' = ibf_Delete(A, key)
    /\ hist' = Append(hist, [op |-> "Delete", key |-> key])
    /\ UNCHANGED OrdOthers

\* A.Subtract(B): the configurations are those of NewIbf, validation passes
OrdSubtract ==
    /\ Len(hist) < MaxOrdOps
    /\ validateSubtrahend(A, B) = "nil"
    /\ A' = ibf_SubtractBuckets(A, B)
    /\ hist' = Append(hist, [op |-> "Subtract", key |-> <<>>])
    /\ UNCHANGED OrdOthers

\* A.Subtract(A): every b.subtract(o) of the loop has o = b
OrdSubtractSelf ==
    /\ Len(hist) < MaxOrdOps
    /\ validateSubtrahend(A, A) = "nil"
    /\ A' = ibf_SubtractBuckets(A, A)
    /\ hist' = Append(hist, [op |-> "SubtractSelf", key |-> <<>>])
    /\ UNCHANGED OrdOthers

OrdNext ==
    \/ \E key \in Keys : OrdAdd(key)
    \/ \E key \in Keys : OrdDelete(key)
    \/ OrdSubtract
    \/ OrdSubtractSelf

-----------------------------------------------------------------------------
(* A call of bucketIndices, one iteration of its loop at a time *)

\* bucket counts of the filters whose indices are derived
IdxBucketCounts == 1..(NumBuckets + 1)

\* key hashes handed to bucketIndices: 0, small values, the top bit, all bits
IdxHashes == {U64(0), U64(1), U64(2), U64(5), U64(33), {63}, Bits64}

\* bucketIndices(hash) is entered on a filter of NewIbf(n): K is 4, next is seeded
IdxInit ==
    /\ call \in {[n |-> n, K |-> DefaultK, hash |-> hash, next |-> xorshift64(hash),
                  indices |-> <<>>, steps |-> 0, pc |-> "loop"] :
                    n \in IdxBucketCounts, hash \in IdxHashes}

\* one iteration of the for loop
IdxStep ==
    /\ call.pc = "loop"
    /\ Len(call.indices) < call.K
    /\ call.steps < MaxIdxSteps
    /\ LET bucketId == Mod64(call.next, call.n)
       IN  call' = [call EXCEPT
                    !.indices = IF bucketId \in Range(@) THEN @ ELSE Append(@, bucketId),
                    !.next = xorshift64(@),
                    !.steps = @ + 1]
    /\ UNCHANGED <<filterVars, msVars, bktVars>>

\* the loop condition fails: return indices
IdxReturn ==
    /\ call.pc = "loop"
    /\ Len(call.indices) >= call.K
    /\ call' = [call EXCEPT !.pc = "returned"]
    /\ UNCHANGED <<filterVars, msVars, bktVars>>

\* the loop is still running after MaxIdxSteps iterations and is followed no further
IdxCut ==
    /\ call.pc = "loop"
    /\ Len(call.indices) < call.K
    /\ call.steps >= MaxIdxSteps
    /\ call' = [call EXCEPT !.pc = "cut"]
    /\ UNCHANGED <<filterVars, msVars, bktVars>>

IdxNext ==
    \/ IdxStep
    \/ IdxReturn
    \/ IdxCut

-----------------------------------------------------------------------------
(* Specifications *)

\* values of the variables a specification does not use
FilterIdle ==
    /\ hashOf = Table(0, 1, 2, 4)
    /\ A = NewIbf(NumBuckets)
    /\ B = NewIbf(NumBuckets)
    /\ pc = "off"
    /\ pos = 0
    /\ updated = FALSE
    /\ remaining = <<>>
    /\ missing = <<>>
    /\ err = "nil"
    /\ hist = <<>>

BktIdle ==
    /\ bkt = <<>>
    /\ bktLog = <<>>

MsIdle ==
    /\ msA = <<>>
    /\ msB = <<>>
    /\ msHist = <<>>

IdxIdle == call = <<>>

\* the single-hash filter
Init == FilterInit /\ BktIdle /\ MsIdle /\ IdxIdle

Next == FilterNext

Spec == Init /\ [][Next]_vars

\* the multi-seed filter
MsSpec == MsInit /\ [][MsNext]_vars

\* sequences of calls on one filter
OrdSpecInit == OrdInit /\ MsIdle /\ BktIdle /\ IdxIdle

OrdSpecNext == OrdNext

OrdSpec == OrdSpecInit /\ [][OrdSpecNext]_vars

\* a call of bucketIndices
IdxSpecInit == IdxInit /\ FilterIdle /\ MsIdle /\ BktIdle

IdxSpecNext == IdxNext

IdxSpec == IdxSpecInit /\ [][IdxSpecNext]_vars

\* the lone bucket
BktSpecInit == BktInit /\ FilterIdle /\ MsIdle /\ IdxIdle

BktSpecNext == BktNext

BktSpec == BktSpecInit /\ [][BktSpecNext]_vars

-----------------------------------------------------------------------------
(* Properties of the single-hash filter (checked under Spec) *)

\* the keys added to A and to B
SA == {key \in Keys : hist.addA[key] > 0}
SB == {key \in Keys : hist.addB[key] > 0}

\* A and B are two filters of NewIbf, each built by one Add per key of a set, A.Subtract(B)
\* came after that and nothing else was done
BuiltFromSets ==
    /\ hist.bKind = "new"
    /\ hist.subtracted
    /\ ~hist.late
    /\ \A key \in Keys :
        /\ hist.addA[key] <= 1
        /\ hist.addB[key] <= 1
        /\ hist.delA[key] = 0
        /\ hist.delB[key] = 0

RECURSIVE XorKeys(_)
XorKeys(T) ==
    IF T = {} THEN MkKey(0)
    ELSE LET key == CHOOSE k \in T : TRUE IN xor(key, XorKeys(T \ {key}))

RECURSIVE XorHashes(_)
XorHashes(T) ==
    IF T = {} THEN U64(0)
    ELSE LET key == CHOOSE k \in T : TRUE IN Xor64(hashOf[key], XorHashes(T \ {key}))

\* the xor of the hashes of the keys of T is the hash of the xor of the keys of T
XorCollision(T) == hashOf[XorKeys(T)] = XorHashes(T)

\* no three or more keys of D xor-collide
NoXorCollision(D) ==
    \A T \in SUBSET D : Cardinality(T) >= 3 => ~XorCollision(T)

SymDiff == (SA \ SB) \cup (SB \ SA)

\* C1 as stated: after A.Subtract(B), whenever A.Decode() returns no error, remaining
\* is SA \ SB and missing is SB \ SA, as sets.
C1_Original ==
    (pc = "done" /\ BuiltFromSets /\ err = "nil") =>
        /\ Range(remaining) = SA \ SB
        /\ Range(missing) = SB \ SA

\* C1 as amended: the same, provided the hash function has no xor-collision on the
\* symmetric difference of SA and SB (no three or more of its keys whose hashes xor
\* to the hash of the xor of the keys).
C1_DecodeYieldsDifference ==
    (pc = "done" /\ BuiltFromSets /\ err = "nil" /\ NoXorCollision(SymDiff)) =>
        /\ Range(remaining) = SA \ SB
        /\ Range(missing) = SB \ SA

\* a decode without error of a difference with keys on both sides
C1_Witness ==
    /\ pc = "done"
    /\ BuiltFromSets
    /\ err = "nil"
    /\ NoXorCollision(SymDiff)
    /\ Cardinality(SA \ SB) = 2
    /\ Cardinality(SB \ SA) = 1
    /\ Range(remaining) = SA \ SB
    /\ Range(missing) = SB \ SA

\* count, hashSum and every byte of keySum of every bucket of f are zero
EveryBucketZero(f) ==
    \A j \in 1..Len(f.Buckets) :
        /\ f.Buckets[j].count = 0
        /\ f.Buckets[j].hashSum = {}
        /\ \A i \in 1..Len(f.Buckets[j].keySum) : f.Buckets[j].keySum[i] = 0

\* C2: when Decode returns, it returns no error iff every bucket is empty, and the
\* error 'decode failed' iff at least one bucket is not empty.
C2_DecodeFailsHonestly ==
    pc = "done" =>
        /\ err = "nil" <=> EveryBucketZero(A)
        /\ err = "decode failed" <=> ~EveryBucketZero(A)

\* a decode that peeled a key and then failed on buckets whose count is 0 but whose
\* sums are not
C2_Witness ==
    /\ pc = "done"
    /\ err = "decode failed"
    /\ Len(remaining) + Len(missing) > 0
    /\ \A j \in 1..Len(A.Buckets) : A.Buckets[j].count = 0

\* a pure bucket that is not among the buckets its own key sum is written to: peeling
\* it changes other buckets only, so it is pure in every later pass as well
StuckPure ==
    \E j \in 1..Len(A.Buckets) :
        /\ IsPure(A, A.Buckets[j])
        /\ j \notin Touched(A, A.Buckets[j].keySum)

C4_RoundTrip ==
    hist.last = "clone" =>
        /\ B.K = A.K
        /\ B.Seed = A.Seed
        /\ B.KeyLength = A.KeyLength
        /\ Len(B.Buckets) = Len(A.Buckets)
        /\ \A j \in 1..Len(A.Buckets) :
            /\ B.Buckets[j].count = A.Buckets[j].count
            /\ B.Buckets[j].keySum = A.Buckets[j].keySum
            /\ B.Buckets[j].hashSum = A.Buckets[j].hashSum

\* C5: with F' = F.clone(), F.Subtract(F') succeeds and leaves every bucket of F
\* empty, and F.Decode() then returns empty remaining, empty missing and no error.
C5_SelfCancellation ==
    /\ (hist.last = "Subtract" /\ hist.fresh) =>
            /\ err = "nil"
            /\ EveryBucketZero(A)
    /\ (pc = "done" /\ hist.fresh /\ hist.subtracted) =>
            /\ remaining = <<>>
            /\ missing = <<>>
            /\ err = "nil"

\* the buckets x and y are written to are the same
SameBuckets(x, y) == Touched(A, x) = Touched(A, y)

\* A received Add(x) only, B received Add(y) only, x # y, then A.Subtract(B), A.Decode()
OneKeyEach(x, y) ==
    /\ pc = "done"
    /\ BuiltFromSets
    /\ SA = {x}
    /\ SB = {y}
    /\ x # y

\* C7 as stated: for distinct x and y, A with Add(x), B with Add(y), A.Subtract(B) and
\* A.Decode() return remaining = [x], missing = [y] and no error.
C7_Original ==
    \A x, y \in Keys :
        OneKeyEach(x, y) =>
            remaining = <<x>> /\ missing = <<y>> /\ err = "nil"

\* C7 as amended: the same, provided x and y are not written to the same set of buckets
\* (when they are, every bucket has count 0 and Decode fails).
C7_SymmetricRoles ==
    \A x, y \in Keys :
        (OneKeyEach(x, y) /\ ~SameBuckets(x, y)) =>
            remaining = <<x>> /\ missing = <<y>> /\ err = "nil"

\* two keys with different buckets were decoded
C7_Witness ==
    \E x, y \in Keys :
        /\ OneKeyEach(x, y)
        /\ ~SameBuckets(x, y)
        /\ remaining = <<x>>
        /\ missing = <<y>>

\* A is a new filter, B received Add(k) only, then A.Subtract(B), A.Decode()
OneKeySubtracted(k) ==
    /\ pc = "done"
    /\ BuiltFromSets
    /\ SA = {}
    /\ SB = {k}

\* C8 as stated: E.Subtract(F), with E empty and F holding one key k, decodes to
\* remaining = [k], missing = [] and no error.
C8_Original ==
    \A k \in Keys :
        OneKeySubtracted(k) => remaining = <<k>> /\ missing = <<>> /\ err = "nil"

\* C8 as amended: it decodes to remaining = [], missing = [k] and no error (k is in
\* the subtracted filter only, its buckets have count -1).
C8_SingleKeyDecode ==
    \A k \in Keys :
        OneKeySubtracted(k) => remaining = <<>> /\ missing = <<k>> /\ err = "nil"

\* the single key of the subtrahend was decoded
C8_Witness ==
    \E k \in Keys : OneKeySubtracted(k) /\ missing = <<k>> /\ err = "nil"

-----------------------------------------------------------------------------
(* Properties of Subtract's validation *)

\* the single-hash filters i and o differ in bucket count, seed, key length or K
ConfigDiffers(i, o) ==
    \/ Len(i.Buckets) # Len(o.Buckets)
    \/ i.Seed # o.Seed
    \/ i.KeyLength # o.KeyLength
    \/ i.K # o.K

\* single-hash variant: a Subtract between filters of different configuration returns
\* an error and changes neither filter
SubtractRejectsMismatch ==
    (hist.last = "Subtract" /\ ConfigDiffers(hist.preA, hist.preB)) =>
        /\ err # "nil"
        /\ pc = "idle"
        /\ A = hist.preA
        /\ B = hist.preB

\* the multi-seed filters i and o differ in bucket count, key seed, key length or in
\* their seeds, the seed lists taken as sets
MsConfigDiffers(i, o) ==
    \/ i.NumBuckets # o.NumBuckets
    \/ i.KeySeed # o.KeySeed
    \/ i.KeyLength # o.KeyLength
    \/ Range(i.Seeds) # Range(o.Seeds)

\* C6 (multi-seed variant): whenever other differs from the receiver in bucket count,
\* hash seed, key length or seeds, Subtract returns an error and leaves both filters as
\* they were: no bucket and no configuration field, the seed list included, is changed.
C6_ConfigMismatchRejected ==
    (msHist.last = "Subtract" /\ MsConfigDiffers(msHist.preA, msHist.preB)) =>
        /\ msHist.err # "nil"
        /\ msA = msHist.preA
        /\ msB = msHist.preB

-----------------------------------------------------------------------------
(* Properties of the lone bucket (checked under BktSpec) *)

\* the buckets after the j-th logged operation
BktAfter(j) == IF j = Len(bktLog) THEN bkt ELSE bktLog[j + 1].before

\* bit k of the byte x
BitOf(x, k) == (x \div (2 ^ k)) % 2

\* c is the byte-wise xor of a and b
IsXorOf(c, a, b) ==
    /\ Len(c) = Len(a)
    /\ Len(a) = Len(b)
    /\ \A i \in 1..Len(a) : \A k \in 0..7 :
            BitOf(c[i], k) = (BitOf(a[i], k) + BitOf(b[i], k)) % 2

\* c is the 64-bit xor of a and b
IsXor64Of(c, a, b) == \A k \in Bits64 : (k \in c) <=> ((k \in a) # (k \in b))

\* the j-th and the next logged operations are add and delete of one (key, hash), in either order
InversePair(j) ==
    /\ j + 1 <= Len(bktLog)
    /\ <<bktLog[j].op, bktLog[j + 1].op>> \in {<<"add", "delete">>, <<"delete", "add">>}
    /\ bktLog[j].key = bktLog[j + 1].key
    /\ bktLog[j].hash = bktLog[j + 1].hash

\* C9: add(key, hash) followed by delete(key, hash), and delete followed by add,
\* restores exactly the count, keySum and hashSum the bucket had before the two calls.
C9_InverseLaw ==
    \A j \in 1..Len(bktLog) :
        InversePair(j) => BktAfter(j + 1)[1] = bktLog[j].before[1]

\* a bucket that is not empty went through add then delete of one pair, and through delete then add
C9_Witness ==
    /\ Len(bktLog) = 2
    /\ InversePair(1)
    /\ bktLog[1].op = "delete"
    /\ ~bucket_isEmpty(bktLog[1].before[1])
    /\ bkt[1].count = bktLog[1].before[1].count
    /\ bkt[1].keySum # bktLog[2].before[1].keySum

\* what the j-th logged operation did to count, keySum and hashSum of the receiver
BktStepOk(j) ==
    LET e    == bktLog[j]
        pre  == e.before[1]
        post == BktAfter(j)[1]
        delta == IF e.op = "add" THEN 1
                 ELSE IF e.op = "delete" THEN -1
                 ELSE -(e.before[e.o].count)
    IN  /\ post.count = pre.count + delta
        /\ IsXorOf(post.keySum, pre.keySum, e.key)
        /\ IsXor64Of(post.hashSum, pre.hashSum, e.hash)

\* the bucket o handed to the j-th logged operation, a subtract, is as it was
BktOtherKept(j) == BktAfter(j)[bktLog[j].o] = bktLog[j].before[bktLog[j].o]

\* C10 as stated: add, delete and subtract change count by +1, -1 and -o.count and xor
\* the key (o.keySum) into keySum and the hash (o.hashSum) into hashSum, and subtract
\* leaves o unchanged.
C10_Original ==
    \A j \in 1..Len(bktLog) :
        /\ BktStepOk(j)
        /\ bktLog[j].op = "subtract" => BktOtherKept(j)

\* C10 as amended: the same, with o left unchanged whenever o is not the receiver itself
\* (b.subtract(b) zeroes b, which is o).
C10_MutationPrimitives ==
    \A j \in 1..Len(bktLog) :
        /\ BktStepOk(j)
        /\ (bktLog[j].op = "subtract" /\ bktLog[j].o # 1) => BktOtherKept(j)

\* a subtract of another, non-empty bucket from a non-empty bucket, after an add
C10_Witness ==
    /\ Len(bktLog) = 2
    /\ bktLog[1].op = "add"
    /\ bktLog[2].op = "subtract"
    /\ bktLog[2].o = 2
    /\ bkt[2].count = -2
    /\ bkt[1].count = bktLog[2].before[1].count + 2
    /\ bkt[1].keySum # bktLog[2].before[1].keySum

-----------------------------------------------------------------------------
(* Properties of isEmpty (checked under BktSpec) *)

\* count and hashSum of b are 0 and every byte of its keySum is zero
BucketZero(b) ==
    /\ b.count = 0
    /\ b.hashSum = {}
    /\ \A i \in 1..Len(b.keySum) : b.keySum[i] = 0

\* single-hash variant: isEmpty is true exactly of the zero buckets, and the buckets
\* of NewIbf are empty
EmptinessSingleHash ==
    /\ bucket_isEmpty(bkt[1]) <=> BucketZero(bkt[1])
    /\ \A j \in 1..NumBuckets : bucket_isEmpty(NewIbf(NumBuckets).Buckets[j])

\* C11: in every reachable state, a new bucket of any key length included, isEmpty
\* is true iff count = 0, hashSum = 0 and every byte of keySum is zero, in the
\* single-hash and in the multi-seed variant; every bucket of a new filter is empty.
C11_Emptiness ==
    /\ EmptinessSingleHash
    /\ ms_bucket_isEmpty(bkt[1]) <=> BucketZero(bkt[1])
    /\ \A j \in 1..NumBuckets : ms_bucket_isEmpty(ms_NewIbf(NumBuckets).Buckets[j])

-----------------------------------------------------------------------------
(* Properties of the passes of Decode (checked under Spec) *)

\* a Decode call is running or has returned
InDecode == pc \in {"scan", "done", "cut"}

\* the Add and Delete calls applied to A
OpsOnA == SumOver(hist.addA, Keys) + SumOver(hist.delA, Keys)

\* the keys the Decode call has peeled so far
Peeled == Len(remaining) + Len(missing)

-----------------------------------------------------------------------------
(* Properties of Add and Delete with a key of the wrong length (checked under Spec) *)

\* C13: Add or Delete with a key whose length differs from KeyLength fails with an
\* InvalidKeyLength error and leaves every bucket of the filter unchanged.
C13_InvalidKeyLength ==
    hist.last \in {"AddBadKey", "DeleteBadKey"} =>
        /\ err = "InvalidKeyLength"
        /\ A.Buckets = hist.preA.Buckets

\* whatever xor does with the key, the call has changed the count of a bucket
BadKeyChangesCount ==
    hist.last \in {"AddBadKey", "DeleteBadKey"} =>
        \E j \in 1..Len(A.Buckets) : A.Buckets[j].count # hist.preA.Buckets[j].count

-----------------------------------------------------------------------------
(* Properties of the result of Add (multi-seed variant, checked under MsSpec) *)

Abs(n) == IF n < 0 THEN -n ELSE n

\* C14: in every reachable state, negative counts included, Add(key) returns true when
\* a bucket touched by the key has a count below 2 in absolute value after the
\* insertion, and false when every touched bucket has an absolute count of 2 or more.
C14_AddResult ==
    msHist.last = "Add" =>
        LET hit == ms_Touched(msA, msHist.key)
        IN  /\ (\E j \in hit : Abs(msA.Buckets[j].count) < 2) => msHist.ret
            /\ (\A j \in hit : Abs(msA.Buckets[j].count) >= 2) => ~msHist.ret

\* what Add returns: whether a touched bucket has a count below 2, sign included
AddResultSigned ==
    msHist.last = "Add" =>
        (msHist.ret <=> \E j \in ms_Touched(msA, msHist.key) : msA.Buckets[j].count < 2)

\* b is pure: its count is 1 or -1 and its hashSum is the hash of its keySum
PureBucket(b) ==
    /\ b.count \in {1, -1}
    /\ hashOf[b.keySum] = b.hashSum

\* the bucket at position p was pure when the running pass began
PureAtPassStart(p) == PureBucket(hist.passStart.Buckets[p])

-----------------------------------------------------------------------------
(* Properties of the peels of Decode (checked under Spec) *)

\* the sum of |count| over the buckets of f
RECURSIVE MassFrom(_, _)
MassFrom(f, j) ==
    IF j > Len(f.Buckets) THEN 0
    ELSE Abs(f.Buckets[j].count) + MassFrom(f, j + 1)

Mass(f) == MassFrom(f, 1)

\* the scan of a pass that peeled at least one key has reached the end of the array
PeelingPassOver == pc = "scan" /\ pos > Len(A.Buckets) /\ updated

\* C16: every pass of Decode that peels at least one key leaves the sum of |count|
\* over all buckets strictly smaller than it was before that pass.
C16_ProgressMeasure == PeelingPassOver => Mass(A) < Mass(hist.passStart)

-----------------------------------------------------------------------------
(* Properties of bucketIndices (checked under IdxSpec) *)

\* every bucket id is in indices and there are fewer than K of them: no later
\* iteration can append one, the loop condition len(indices) < K holds for ever
IdxExhausted ==
    /\ call.pc = "loop"
    /\ Cardinality(Range(call.indices)) = call.n
    /\ call.n < call.K

\* indices holds K pairwise distinct bucket ids, each in [0, n)
IdxResultOk ==
    /\ Len(call.indices) = call.K
    /\ Cardinality(Range(call.indices)) = call.K
    /\ \A j \in 1..Len(call.indices) : call.indices[j] >= 0 /\ call.indices[j] < call.n

\* C17: for every positive bucket count and every key hash, 0 included, bucketIndices
\* terminates and returns exactly K pairwise distinct indices in [0, bucketCount).
C17_IndexSelection ==
    /\ call.pc = "returned" => IdxResultOk
    /\ ~IdxExhausted
    /\ call.pc # "cut"

\* with at least K buckets the call returns K distinct indices, the ones that the
\* filters of the other specifications use
IdxCompletesWithKBuckets ==
    call.n >= call.K =>
        /\ call.pc # "cut"
        /\ call.pc = "returned" =>
                /\ IdxResultOk
                /\ call.indices = bucketIndicesLoop(call.n, call.K, xorshift64(call.hash), <<>>)

-----------------------------------------------------------------------------
(* Properties of the order of calls (checked under OrdSpec) *)

\* the filter left by the calls of hist made in the order order[1], order[2], ...
\* on a new filter
RECURSIVE Replayed(_, _)
Replayed(order, n) ==
    IF n = 0 THEN NewIbf(NumBuckets)
    ELSE ApplyCall(Replayed(order, n - 1), hist[order[n]])

\* every ordering of the calls made leaves the buckets that A has
EveryOrderSame ==
    \A order \in Permutations(1..Len(hist)) :
        Replayed(order, Len(hist)).Buckets = A.Buckets

\* a Subtract among the calls was handed the receiver itself
SelfSubtracted == \E i \in 1..Len(hist) : hist[i].op = "SubtractSelf"

\* C18 as stated: the bucket array after a sequence of Add, Delete and Subtract calls
\* is the same for every ordering of the sequence.
C18_Original == EveryOrderSame

\* C18 as amended: the same, provided no Subtract of the sequence is handed the
\* receiver itself.
C18_Commutativity == ~SelfSubtracted => EveryOrderSame

\* an Add, a Delete of another key and a Subtract of B were made, in some order
C18_Witness ==
    /\ ~SelfSubtracted
    /\ Len(hist) = 3
    /\ \E i, j, k \in 1..3 :
            /\ hist[i].op = "Add"
            /\ hist[j].op = "Delete"
            /\ hist[k].op = "Subtract"
            /\ hist[i].key # hist[j].key
    /\ hist[1].op = "Subtract"

-----------------------------------------------------------------------------
(* Properties of the results of Decode (checked under Spec) *)

\* f after Add of the keys q[1..n]
RECURSIVE AddAll(_, _, _)
AddAll(f, q, n) == IF n = 0 THEN f ELSE ibf_Add(AddAll(f, q, n - 1), q[n])

\* f after Delete of the keys q[1..n]
RECURSIVE DeleteAll(_, _, _)
DeleteAll(f, q, n) == IF n = 0 THEN f ELSE ibf_Delete(DeleteAll(f, q, n - 1), q[n])

\* the filter as it is now, with the keys of remaining added and those of missing
\* deleted again
PeelsUndone ==
    DeleteAll(AddAll(A, remaining, Len(remaining)), missing, Len(missing))

\* C19: at every point of a Decode call, and at its return with or without error,
\* Add of every key recorded in remaining and Delete of every key recorded in missing,
\* applied to the current buckets, give the bucket array that Decode was called on.
C19_Conservation == InDecode => PeelsUndone.Buckets = hist.preA.Buckets

\* a Decode that recorded a key of remaining or of missing and then failed
C19_Witness ==
    /\ pc = "done"
    /\ err = "decode failed"
    /\ Len(remaining) + Len(missing) >= 1
    /\ A.Buckets # hist.preA.Buckets
    /\ PeelsUndone.Buckets = hist.preA.Buckets

-----------------------------------------------------------------------------
(* Properties of Subtract as a replay of calls (checked under Spec) *)

\* f after n calls of Add(key)
RECURSIVE AddTimes(_, _, _)
AddTimes(f, key, n) == IF n = 0 THEN f ELSE ibf_Add(AddTimes(f, key, n - 1), key)

\* f after n calls of Delete(key)
RECURSIVE DeleteTimes(_, _, _)
DeleteTimes(f, key, n) == IF n = 0 THEN f ELSE ibf_Delete(DeleteTimes(f, key, n - 1), key)

\* f after adds[key] calls of Add(key) and dels[key] calls of Delete(key), for the
\* keys of S
RECURSIVE Replay(_, _, _, _)
Replay(f, S, adds, dels) ==
    IF S = {} THEN f
    ELSE LET key == CHOOSE k \in S : TRUE
         IN  Replay(DeleteTimes(AddTimes(f, key, adds[key]), key, dels[key]),
                    S \ {key}, adds, dels)

\* a new filter that received the calls made on A, and then the calls made on B with
\* every Add replaced by Delete and every Delete by Add
MirrorReplay ==
    Replay(Replay(NewIbf(NumBuckets), Keys, hist.addA, hist.delA),
           Keys, hist.delB, hist.addB)

\* A.Subtract(B) has just returned without error, A and B being filters of NewIbf
\* built by Add and Delete calls
SubtractedBuilt ==
    /\ hist.last = "Subtract"
    /\ hist.bKind = "new"
    /\ pc = "idle"
    /\ err = "nil"

\* C20: for A and B of one configuration built by Add and Delete calls, the buckets of
\* A after A.Subtract(B) are those of a filter that received the calls of A and then
\* the calls of B with Add and Delete exchanged.
C20_SubtractLinearity == SubtractedBuilt => A.Buckets = MirrorReplay.Buckets

\* B had received an Add and a Delete, A an Add, when it was subtracted
C20_Witness ==
    /\ SubtractedBuilt
    /\ SumOver(hist.addB, Keys) = 1
    /\ SumOver(hist.delB, Keys) = 1
    /\ SumOver(hist.addA, Keys) = 1
    /\ A.Buckets = MirrorReplay.Buckets
    /\ A.Buckets # hist.preA.Buckets

====
